---- MODULE Spec2Model ----
(***************************************************************************)
(* Linear-regression guide algorithm of PHD2                                *)
(* (src/guide_algorithm_linear_regression.cpp).                             *)
(*                                                                          *)
(* Number representation (the source uses double):                          *)
(*   - the control gain is held in units of 1/GainDen, so 1.0 is GainDen;   *)
(*   - measurements, controls and predictions are held in units of          *)
(*     1/GainDen of the input unit, so that gain * input is the integer     *)
(*     control_gain_ * input and the stored measurement is GainDen * input; *)
(*   - clock readings are integer milliseconds, as wxStopWatch::Time();     *)
(*   - a sample's timestamp is held in units of 1/2000 s, so that           *)
(*     (last_timestamp_ - delta/2) / 1000 is the integer                    *)
(*     2 * last_timestamp_ - delta.                                         *)
(***************************************************************************)
EXTENDS Integers, Sequences, FiniteSets, TLC

\* ------------------------------------------------------------------ bounds
\* Denominator of the fixed-point representation of gains and values.
GainDen == 2
\* Capacity of the history used by the model; the source constructs the
\* buffer with 200 (line 124).  The model is checked at a small capacity so
\* that filling and eviction are reached.
Capacity == 4
\* The clock advances at most MaxTicks times in a behaviour.
MaxTicks == 1

\* --------------------------------------------------------------- constants
DefaultControlGain == GainDen
DefaultNbMinPointsForInference == 25

\* ------------------------------------------------------------------ inputs
\* Arguments given to SetControlGain (in 1/GainDen): below, inside and above [0,1].
GainInputs == {-1, 0, 1, GainDen, GainDen + 1}
\* Arguments given to SetNbElementForInference.
NbInputs == {-1, 0, 3, Capacity}
\* Raw measurements passed to result().
Inputs == {-1, 1}
\* Values of pFrame->RequestedExposureDuration(), in milliseconds.
Durations == {500, 1500}
\* Outcomes of weights(1).  The fit reads circular_buffer_parameters[i-1] at
\* i = 0, assigns vectors of n entries to rows of n-1 columns and solves against
\* an operand the function never fills (lines 340-361): its result is not
\* determined by the history, so it is a choice among representative slopes.
Weights == {-1, 2}
\* Time that passes between two calls, in milliseconds.
TickMs == {500}
\* Clock readings stop advancing at MaxTime milliseconds.
MaxTime == MaxTicks * 500
\* result() is called at most MaxSteps times between two reset() calls: enough
\* to fill the history and evict from it.
MaxSteps == Capacity + 1

VARIABLES
    parameters,   \* the lr_guide_parameters block owned by the controller
    profile,      \* pConfig->Profile, the two keys this class writes
    fresh,        \* a controller constructed at the last reset() with the same
                  \* configuration, driven by the same result() calls
    pure_steps,   \* TRUE while only result() calls followed the last reset()
    op,           \* the last operation called
    arg,          \* its argument (input of result, argument of a setter)
    dur,          \* RequestedExposureDuration() read by the last result/deduceResult
    ret,          \* the value it returned
    fresh_ret,    \* the value the fresh controller returned for the same call
    escaped,      \* TRUE iff an exception left the last call
    lr_ran,       \* TRUE iff the last result/deduceResult ran the regression
    prediction_,  \* the local prediction_ of the last result/deduceResult
    w1,           \* weights(1) of the last regression, 0 when it did not run
    inserted      \* number of result() calls since the last reset()

vars == <<parameters, profile, fresh, pure_steps, op, arg, dur, ret, fresh_ret,
          escaped, lr_ran, prediction_, w1, inserted>>

\* The variables of the comparison with a freshly constructed controller.
shadow == <<fresh, pure_steps, fresh_ret>>

\* ------------------------------------------------------- circular_buffer<T>
\* The buffer class is not part of the sources at hand; it is modelled from
\* the specification: fixed capacity, insertion-ordered, index 0 is the most
\* recently inserted sample, the oldest sample is evicted once full.
\* A buffer is a sequence whose head is index 0.
push_front(buf, item) ==
    IF Len(buf) < Capacity
    THEN <<item>> \o buf
    ELSE <<item>> \o SubSeq(buf, 1, Capacity - 1)

size(buf) == Len(buf)

\* ------------------------------------------------ lr_guiding_circular_datapoints
\* data_points(): value-initialised, every field 0.  id is not a field of the
\* source: it numbers the insertions since the last clear() so that samples
\* can be told apart.
data_points(id) ==
    [timestamp |-> 0, measurement |-> 0, modified_measurement |-> 0,
     control |-> 0, id |-> id]

\* ------------------------------------------------------- lr_guide_parameters
\* The constructor's initialiser list; control_gain_ is not in it and is
\* written by SetControlGain before any read.
lr_guide_parameters ==
    [circular_buffer_parameters |-> <<>>,
     timer_ |-> 0,
     control_signal_ |-> 0,
     control_gain_ |-> 0,
     last_timestamp_ |-> 0,
     min_nb_element_for_inference |-> 0]

get_number_of_measurements(p) == size(p.circular_buffer_parameters)

\* 0-based index used by get_last_point(): size() - 1.
get_last_point(p) == size(p.circular_buffer_parameters) - 1

\* 0-based index used by get_second_last_point(): size() - 2.
get_second_last_point(p) == size(p.circular_buffer_parameters) - 2

\* Variant: the sample is pushed twice.
add_one_point_twice(p, id) ==
    [p EXCEPT !.circular_buffer_parameters =
         push_front(push_front(@, data_points(id)), data_points(id))]

add_one_point(p, id) ==
    [p EXCEPT !.circular_buffer_parameters = push_front(@, data_points(id))]

clear(p) == [p EXCEPT !.circular_buffer_parameters = <<>>]

\* ------------------------------------------------------------------ setters
\* Both setters return [params, error, escaped]: the block after the call,
\* the bool returned, and whether the thrown wxString left the function
\* (it is caught by catch (wxString)).
\* Variant: the catch block restores the default and resets the controller.
SetControlGain_resets(p, control_gain) ==
    LET thrown == control_gain < 0 \/ control_gain > GainDen
    IN  [params  |-> IF thrown
                     THEN clear([p EXCEPT !.control_gain_ = DefaultControlGain])
                     ELSE [p EXCEPT !.control_gain_ = control_gain],
         error   |-> thrown,
         escaped |-> FALSE]

\* Variant: an argument outside [0,1] is clamped to the nearer edge.
SetControlGain_clamps(p, control_gain) ==
    LET thrown == control_gain < 0 \/ control_gain > GainDen
    IN  [params  |-> [p EXCEPT !.control_gain_ =
                         IF control_gain < 0 THEN 0
                         ELSE IF control_gain > GainDen THEN GainDen
                         ELSE control_gain],
         error   |-> thrown,
         escaped |-> FALSE]

SetControlGain(p, control_gain) ==
    LET thrown == control_gain < 0 \/ control_gain > GainDen
    IN  [params  |-> [p EXCEPT !.control_gain_ =
                         IF thrown THEN DefaultControlGain ELSE control_gain],
         error   |-> thrown,
         escaped |-> FALSE]

\* Variant: the catch block reports the error and leaves the threshold alone.
SetNbElementForInference_no_fallback(p, nb_elements) ==
    LET thrown == nb_elements < 0
    IN  [params  |-> [p EXCEPT !.min_nb_element_for_inference =
                         IF thrown THEN @ ELSE nb_elements],
         error   |-> thrown,
         escaped |-> FALSE]

SetNbElementForInference(p, nb_elements) ==
    LET thrown == nb_elements < 0
    IN  [params  |-> [p EXCEPT !.min_nb_element_for_inference =
                         IF thrown THEN DefaultNbMinPointsForInference
                         ELSE nb_elements],
         error   |-> thrown,
         escaped |-> FALSE]

GetControlGain(p) == p.control_gain_

GetNbMeasurementsMin(p) == p.min_nb_element_for_inference

\* -------------------------------------------------------------------- reset
reset(p) == clear(p)

\* The constructor: new lr_guide_parameters(), both setters with the values
\* read from the profile, then reset().
GuideLinearRegression(control_gain, nb_element_for_inference) ==
    reset(SetNbElementForInference(
              SetControlGain(lr_guide_parameters, control_gain).params,
              nb_element_for_inference).params)

\* ----------------------------------------------------------------- handlers
\* Writes go through get_last_point(); with an empty history the index is
\* size() - 1 = -1 and the write does not land in the history.
HandleTimestamps(p) ==
    LET started == IF get_number_of_measurements(p) = 0
                   THEN [p EXCEPT !.timer_ = 0]
                   ELSE p
        time_now == started.timer_
        delta_measurement_time_ms == time_now - p.last_timestamp_
        q == [started EXCEPT !.last_timestamp_ = time_now]
    IN  IF get_number_of_measurements(q) = 0
        THEN q
        ELSE [q EXCEPT !.circular_buffer_parameters[get_last_point(q) + 1].timestamp =
                           2 * q.last_timestamp_ - delta_measurement_time_ms]

HandleMeasurements(p, input) ==
    IF get_number_of_measurements(p) = 0
    THEN p
    ELSE [p EXCEPT !.circular_buffer_parameters[get_last_point(p) + 1].measurement =
                       GainDen * input]

\* The else branch (line 297) names get_last_point().control and the text
\* ends before any assignment: stored tells whether the value is written.
HandleControls(p, control_input, stored) ==
    IF get_number_of_measurements(p) = 0
    THEN p
    ELSE IF get_number_of_measurements(p) <= 1 \/ stored
         THEN [p EXCEPT !.circular_buffer_parameters[get_last_point(p) + 1].control =
                            control_input]
         ELSE p

\* No function of the file calls HandleModifiedMeasurements: result() goes
\* from HandleTimestamps to the regression and on to HandleControls.
HandleModifiedMeasurements(p, input) ==
    IF get_number_of_measurements(p) = 0
    THEN p
    ELSE IF get_number_of_measurements(p) <= 1
         THEN [p EXCEPT !.circular_buffer_parameters[get_last_point(p) + 1]
                            .modified_measurement = GainDen * input]
         ELSE LET second == p.circular_buffer_parameters[get_second_last_point(p) + 1]
              IN  [p EXCEPT !.circular_buffer_parameters[get_last_point(p) + 1]
                                .modified_measurement =
                        GainDen * input + second.control - second.measurement
                            + second.modified_measurement]

\* "check if we are allowed to use the LR", in result() and in deduceResult().
\* Variant: the test of a positive threshold is missing.
result_allowed_no_positive_test(p) ==
    get_number_of_measurements(p) > p.min_nb_element_for_inference

\* Variant: the regression starts when the length reaches the threshold.
result_allowed_at_threshold(p) ==
    /\ p.min_nb_element_for_inference > 0
    /\ get_number_of_measurements(p) >= p.min_nb_element_for_inference

result_allowed(p) ==
    /\ p.min_nb_element_for_inference > 0
    /\ get_number_of_measurements(p) > p.min_nb_element_for_inference

\* Variant: deduceResult() predicts when the length reaches the threshold.
deduce_allowed_at_threshold(p) ==
    /\ p.min_nb_element_for_inference > 0
    /\ get_number_of_measurements(p) >= p.min_nb_element_for_inference

deduce_allowed(p) ==
    /\ p.min_nb_element_for_inference > 0
    /\ get_number_of_measurements(p) > p.min_nb_element_for_inference

\* prediction_ = (delta_controller_time_ms / 1000) * weights(1): both operands
\* of the division are int, the quotient is truncated.
result_prediction(p, delta_controller_time_ms, weights1) ==
    IF result_allowed(p)
    THEN (delta_controller_time_ms \div 1000) * weights1
    ELSE 0

deduce_prediction(p, delta_controller_time_ms, weights1) ==
    IF deduce_allowed(p)
    THEN (delta_controller_time_ms \div 1000) * weights1
    ELSE 0

\* The first three statements of result(): the history the guard is
\* evaluated on.
result_appended(p, id, input) ==
    HandleTimestamps(HandleMeasurements(add_one_point(p, id), input))

\* result(input): the block after the call; the value returned is its
\* control_signal_.
result(p, id, input, delta_controller_time_ms, weights1, stored) ==
    LET p3 == result_appended(p, id, input)
        p4 == [p3 EXCEPT !.control_signal_ = p3.control_gain_ * input]
        p5 == [p4 EXCEPT !.control_signal_ =
                   @ + result_prediction(p4, delta_controller_time_ms, weights1)]
    IN  HandleControls(p5, p5.control_signal_, stored)

\* deduceResult(): the block after the call; the value returned is its
\* control_signal_.
deduceResult(p, delta_controller_time_ms, weights1, stored) ==
    LET p1 == IF deduce_allowed(p)
              THEN [p EXCEPT !.control_signal_ =
                        deduce_prediction(p, delta_controller_time_ms, weights1)]
              ELSE p
    IN  HandleControls(p1, p1.control_signal_, stored)

\* The calls and blocks result() executes, in the order of its text; the
\* regression block is entered when the guard allows it.
result_statements(allowed) ==
    <<"add_one_point", "HandleMeasurements", "HandleTimestamps">>
        \o (IF allowed THEN <<"regression">> ELSE <<>>)
        \o <<"HandleControls">>

\* ------------------------------------------------------------- regression
\* The transfer loop and the fit, for a history of n samples. Indices are
\* those of circular_buffer_parameters[...]; i - 1 at i = 0 is written -1
\* (the size_t wraps to an index beyond every history).
timestamps_size(n) == n

measurements_size(n) == n

regression_indices(n) ==
    {i : i \in 0..(n - 1)}
        \cup (IF n = 1 THEN {} ELSE {i - 1 : i \in 0..(n - 1)})

feature_matrix_cols(n) == n - 1

\* --------------------------------------------------------------------- Init
\* The state after the constructor, for every value the profile may hold.
InitController ==
    \E g \in GainInputs, n \in NbInputs :
        /\ parameters = GuideLinearRegression(g, n)
        /\ profile = [lr_controlGain |-> GetControlGain(parameters),
                      lr_nbminelementforinference |-> GetNbMeasurementsMin(parameters)]
        /\ op = "GuideLinearRegression"
        /\ arg = 0
        /\ dur = 0
        /\ ret = 0
        /\ escaped = FALSE
        /\ lr_ran = FALSE
        /\ prediction_ = 0
        /\ w1 = 0
        /\ inserted = 0

\* Without the comparison: its variables stay as they are here.
Init ==
    /\ InitController
    /\ fresh = lr_guide_parameters
    /\ pure_steps = FALSE
    /\ fresh_ret = 0

\* With the comparison: the controller is itself freshly constructed.
InitFresh ==
    /\ InitController
    /\ fresh = parameters
    /\ pure_steps = TRUE
    /\ fresh_ret = 0

\* ------------------------------------------------------------------ actions
\* Wall-clock time passes between two calls.
Tick(ms) ==
    /\ parameters.timer_ + ms <= MaxTime
    /\ parameters' = [parameters EXCEPT !.timer_ = @ + ms]
    /\ UNCHANGED <<profile, op, arg, dur, ret, escaped, lr_ran, prediction_, w1,
                   inserted>>

CallSetControlGain(control_gain) ==
    LET r == SetControlGain(parameters, control_gain)
    IN  /\ parameters' = r.params
        /\ profile' = [profile EXCEPT !.lr_controlGain = r.params.control_gain_]
        /\ op' = "SetControlGain"
        /\ arg' = control_gain
        /\ ret' = r.error
        /\ escaped' = r.escaped
        /\ dur' = 0
        /\ lr_ran' = FALSE
        /\ prediction_' = 0
        /\ w1' = 0
        /\ UNCHANGED inserted

CallSetNbElementForInference(nb_elements) ==
    LET r == SetNbElementForInference(parameters, nb_elements)
    IN  /\ parameters' = r.params
        /\ profile' = [profile EXCEPT !.lr_nbminelementforinference =
                           r.params.min_nb_element_for_inference]
        /\ op' = "SetNbElementForInference"
        /\ arg' = nb_elements
        /\ ret' = r.error
        /\ escaped' = r.escaped
        /\ dur' = 0
        /\ lr_ran' = FALSE
        /\ prediction_' = 0
        /\ w1' = 0
        /\ UNCHANGED inserted

\* weights(1) exists only when the regression runs, and the else branch of
\* HandleControls is taken only with two samples or more.
WeightsWhen(allowed) == IF allowed THEN Weights ELSE {0}

StoredWhen(p) == IF get_number_of_measurements(p) <= 1 THEN {TRUE} ELSE BOOLEAN

\* The outcomes of weights(1) and of the store in a result(input) call.
ResultWeights(input) ==
    WeightsWhen(result_allowed(result_appended(parameters, inserted + 1, input)))

ResultStored(input) ==
    StoredWhen(result_appended(parameters, inserted + 1, input))

CallResult(input, duration, weights1, stored) ==
    LET appended == result_appended(parameters, inserted + 1, input)
    IN  /\ inserted < MaxSteps
        /\ parameters' = result(parameters, inserted + 1, input, duration,
                                weights1, stored)
        /\ op' = "result"
        /\ arg' = input
        /\ dur' = duration
        /\ ret' = parameters'.control_signal_
        /\ escaped' = FALSE
        /\ lr_ran' = result_allowed(appended)
        /\ prediction_' = result_prediction(appended, duration, weights1)
        /\ w1' = weights1
        /\ inserted' = inserted + 1
        /\ UNCHANGED profile

\* The outcomes of weights(1) and of the store in a deduceResult() call.
DeduceWeights == WeightsWhen(deduce_allowed(parameters))

DeduceStored == StoredWhen(parameters)

CallDeduceResult(duration, weights1, stored) ==
    /\ parameters' = deduceResult(parameters, duration, weights1, stored)
    /\ op' = "deduceResult"
    /\ arg' = 0
    /\ dur' = duration
    /\ ret' = parameters'.control_signal_
    /\ escaped' = FALSE
    /\ lr_ran' = deduce_allowed(parameters)
    /\ prediction_' = deduce_prediction(parameters, duration, weights1)
    /\ w1' = weights1
    /\ UNCHANGED <<profile, inserted>>

CallReset ==
    /\ parameters' = reset(parameters)
    /\ op' = "reset"
    /\ arg' = 0
    /\ dur' = 0
    /\ ret' = 0
    /\ escaped' = FALSE
    /\ lr_ran' = FALSE
    /\ prediction_' = 0
    /\ w1' = 0
    /\ inserted' = 0
    /\ UNCHANGED profile

Next ==
    \/ \E ms \in TickMs : Tick(ms) /\ UNCHANGED shadow
    \/ \E g \in GainInputs : CallSetControlGain(g) /\ UNCHANGED shadow
    \/ \E n \in NbInputs : CallSetNbElementForInference(n) /\ UNCHANGED shadow
    \/ \E x \in Inputs : \E d \in Durations, w \in ResultWeights(x), s \in ResultStored(x) :
           CallResult(x, d, w, s) /\ UNCHANGED shadow
    \/ \E d \in Durations, w \in DeduceWeights, s \in DeduceStored :
           CallDeduceResult(d, w, s) /\ UNCHANGED shadow
    \/ CallReset /\ UNCHANGED shadow

Spec == Init /\ [][Next]_vars

\* ------------------------------------- the freshly constructed controller
\* fresh is the controller the constructor gives at the last reset() for the
\* gain and threshold in force; it sees the same time pass, the same setter
\* calls and the same result() calls, with the same outcome of every choice.
\* pure_steps falls when deduceResult() is called, and fresh is then dropped.
FreshTick(ms) ==
    /\ fresh' = IF pure_steps THEN [fresh EXCEPT !.timer_ = @ + ms] ELSE fresh
    /\ UNCHANGED <<pure_steps, fresh_ret>>

FreshSetControlGain(control_gain) ==
    /\ fresh' = IF pure_steps THEN SetControlGain(fresh, control_gain).params
                ELSE fresh
    /\ UNCHANGED <<pure_steps, fresh_ret>>

FreshSetNbElementForInference(nb_elements) ==
    /\ fresh' = IF pure_steps
                THEN SetNbElementForInference(fresh, nb_elements).params
                ELSE fresh
    /\ UNCHANGED <<pure_steps, fresh_ret>>

FreshResult(input, duration, weights1, stored) ==
    /\ fresh' = IF pure_steps
                THEN result(fresh, inserted + 1, input, duration, weights1, stored)
                ELSE fresh
    /\ fresh_ret' = IF pure_steps THEN fresh'.control_signal_ ELSE 0
    /\ UNCHANGED pure_steps

FreshDeduceResult ==
    /\ fresh' = lr_guide_parameters
    /\ pure_steps' = FALSE
    /\ fresh_ret' = 0

FreshReset ==
    /\ fresh' = GuideLinearRegression(GetControlGain(parameters),
                                      GetNbMeasurementsMin(parameters))
    /\ pure_steps' = TRUE
    /\ fresh_ret' = 0

NextFresh ==
    \/ \E ms \in TickMs : Tick(ms) /\ FreshTick(ms)
    \/ \E g \in GainInputs : CallSetControlGain(g) /\ FreshSetControlGain(g)
    \/ \E n \in NbInputs :
           CallSetNbElementForInference(n) /\ FreshSetNbElementForInference(n)
    \/ \E x \in Inputs : \E d \in Durations, w \in ResultWeights(x), s \in ResultStored(x) :
           CallResult(x, d, w, s) /\ FreshResult(x, d, w, s)
    \/ \E d \in Durations, w \in DeduceWeights, s \in DeduceStored :
           CallDeduceResult(d, w, s) /\ FreshDeduceResult
    \/ CallReset /\ FreshReset

SpecFresh == InitFresh /\ [][NextFresh]_vars

\* ------------------------------------------------------------------- claims
history == parameters.circular_buffer_parameters

Min(a, b) == IF a < b THEN a ELSE b

C2_SetNbElementForInference ==
    op = "SetNbElementForInference" =>
        /\ ~escaped
        /\ arg >= 0 => (ret = FALSE /\ GetNbMeasurementsMin(parameters) = arg)
        /\ arg < 0 => (ret = TRUE /\ GetNbMeasurementsMin(parameters) = 25)

\* A negative threshold was rejected while another threshold was in force.
C2_Witness ==
    /\ op = "SetNbElementForInference"
    /\ arg < 0
    /\ ret = TRUE
    /\ GetNbMeasurementsMin(parameters) = 25
    /\ Len(history) > 0

\* C3: with a threshold of 0, result(input) returns exactly gain * input,
\* whatever was called before and whatever the history length, a full
\* history included.
C3_ProportionalOnly ==
    (op = "result" /\ parameters.min_nb_element_for_inference = 0) =>
        ret = parameters.control_gain_ * arg

\* result() returned a non-zero gain * input on a full history that has evicted.
C3_Witness ==
    /\ op = "result"
    /\ parameters.min_nb_element_for_inference = 0
    /\ Len(history) = Capacity
    /\ inserted > Capacity
    /\ ret = parameters.control_gain_ * arg
    /\ ret # 0

\* C4: in result() and deduceResult() the regression runs iff the threshold
\* is positive and the history length (in result() counted after the new
\* sample is appended) is strictly greater than the threshold; otherwise the
\* prediction is 0 and result() returns gain * input.  With a threshold of 3
\* the regression does not run in calls 1 to 3 after a reset and runs in call 4.
C4_Activation ==
    op \in {"result", "deduceResult"} =>
        /\ lr_ran <=> (/\ parameters.min_nb_element_for_inference > 0
                       /\ Len(history) > parameters.min_nb_element_for_inference)
        /\ ~lr_ran => prediction_ = 0
        /\ (~lr_ran /\ op = "result") => ret = parameters.control_gain_ * arg
        /\ (/\ op = "result"
            /\ parameters.min_nb_element_for_inference = 3
            /\ Len(history) = inserted) => (lr_ran <=> inserted >= 4)

\* The fourth result() call after a reset ran the regression with threshold 3.
C4_Witness ==
    /\ op = "result"
    /\ parameters.min_nb_element_for_inference = 3
    /\ inserted = 4
    /\ Len(history) = 4
    /\ lr_ran
    /\ prediction_ # 0

C6_ResetLikeFresh ==
    (pure_steps /\ op = "result") =>
        /\ ret = fresh_ret
        /\ history = fresh.circular_buffer_parameters

\* C7: after reset() the history is empty and last_timestamp_ is zero, and
\* the gain and the threshold are what they were before the call.
C7_ResetState ==
    [][CallReset =>
          /\ parameters'.circular_buffer_parameters = <<>>
          /\ parameters'.last_timestamp_ = 0
          /\ parameters'.control_gain_ = parameters.control_gain_
          /\ parameters'.min_nb_element_for_inference =
                 parameters.min_nb_element_for_inference]_vars

C9_DeduceResultValue ==
    op = "deduceResult" =>
        /\ ~lr_ran => ret = 0
        /\ lr_ran => 1000 * ret = dur * w1

\* C10: the timestamps of the buffered samples never decrease in insertion
\* order, also for samples inserted after a reset() that follows result() calls.
C10_TimestampsMonotone ==
    \A i, j \in 1..Len(history) :
        history[i].id < history[j].id =>
            history[i].timestamp <= history[j].timestamp

\* ---------------------------------------------------- steps and samples
\* A step of each kind of call.
ResultStep ==
    \E x \in Inputs : \E d \in Durations, w \in ResultWeights(x), s \in ResultStored(x) :
        CallResult(x, d, w, s)

DeduceStep ==
    \E d \in Durations, w \in DeduceWeights, s \in DeduceStored :
        CallDeduceResult(d, w, s)

SetterStep ==
    /\ op' \in {"SetControlGain", "SetNbElementForInference"}
    /\ \/ \E g \in GainInputs : CallSetControlGain(g)
       \/ \E n \in NbInputs : CallSetNbElementForInference(n)

\* The sample of history h that was inserted as number id.
Sample(h, id) == h[CHOOSE i \in 1..Len(h) : h[i].id = id]

\* C11: every result() call, with the regression running or not, sets
\* last_timestamp_ to the clock reading, and the timestamp of the sample it
\* appended is the midpoint of the previous and the current reading,
\* (now - (now - previous last_timestamp_) / 2) / 1000 seconds.
C11_MidpointTimestamp ==
    [][ResultStep =>
          /\ parameters'.last_timestamp_ = parameters'.timer_
          /\ Sample(parameters'.circular_buffer_parameters, inserted').timestamp =
                 2 * parameters'.timer_
                     - (parameters'.timer_ - parameters.last_timestamp_)]_vars

\* C12: after every result() call the corrected measurement of the sample it
\* appended is its raw measurement for the first sample after construction or
\* reset, and raw[i] + control[i-1] - raw[i-1] + corrected[i-1] afterwards,
\* i-1 being the sample appended by the preceding call.
C12_CorrectedRecurrence ==
    op = "result" =>
        LET new == Sample(history, inserted)
        IN  /\ inserted = 1 => new.modified_measurement = new.measurement
            /\ (inserted > 1 /\ Len(history) > 1) =>
                   LET prev == Sample(history, inserted - 1)
                   IN  new.modified_measurement =
                           new.measurement + prev.control - prev.measurement
                               + prev.modified_measurement

\* C13: every result() call returns gain * input + prediction, at any
\* history length, and that value is the control field of the sample the call
\* appended.
C13_ControlStored ==
    op = "result" =>
        /\ ret = parameters.control_gain_ * arg + prediction_
        /\ Sample(history, inserted).control = ret

\* C14: SetControlGain and SetNbElementForInference, whether they accept or
\* reject the argument, leave the history (its length and every field of
\* every sample), the timing state and control_signal_ as they were.
C14_SettersKeepHistory ==
    [][SetterStep =>
          /\ parameters'.circular_buffer_parameters =
                 parameters.circular_buffer_parameters
          /\ parameters'.last_timestamp_ = parameters.last_timestamp_
          /\ parameters'.timer_ = parameters.timer_
          /\ parameters'.control_signal_ = parameters.control_signal_]_vars

\* A rejected gain arrived while the history held two samples and time had
\* been recorded.
C14_Witness ==
    /\ op = "SetControlGain"
    /\ ret = TRUE
    /\ Len(history) >= 2
    /\ parameters.last_timestamp_ > 0

\* The place of statement x in the sequence o, 0 when it is not there.
Pos(o, x) ==
    IF \E i \in 1..Len(o) : o[i] = x
    THEN CHOOSE i \in 1..Len(o) : o[i] = x
    ELSE 0

\* C15: within one result() call the sample is appended first, then its raw
\* measurement and timestamp are written, then its corrected measurement,
\* then (when allowed) the regression runs, and the control is stored last:
\* the regression never runs before the corrected measurement of the newest
\* sample has been written.
C15_StepOrder ==
    op = "result" =>
        LET o == result_statements(lr_ran)
        IN  /\ Pos(o, "add_one_point") = 1
            /\ Pos(o, "HandleMeasurements") > 1
            /\ Pos(o, "HandleTimestamps") > 1
            /\ Pos(o, "HandleModifiedMeasurements") > Pos(o, "HandleMeasurements")
            /\ Pos(o, "HandleModifiedMeasurements") > Pos(o, "HandleTimestamps")
            /\ lr_ran => Pos(o, "regression") > Pos(o, "HandleModifiedMeasurements")
            /\ Pos(o, "HandleControls") = Len(o)

\* C16: at every history length from 1 to the capacity, eviction included,
\* get_last_point() is the sample inserted by the latest result() call and
\* get_second_last_point() the sample inserted by the call before it; with
\* two or more samples the two are distinct.
C16_LastPointIsNewest ==
    /\ Len(history) >= 1 =>
           history[get_last_point(parameters) + 1].id = inserted
    /\ Len(history) >= 2 =>
           /\ history[get_second_last_point(parameters) + 1].id = inserted - 1
           /\ get_second_last_point(parameters) # get_last_point(parameters)

\* C17: whenever the regression ran, the prediction is the requested
\* exposure duration in seconds times weights(1), for every duration in
\* milliseconds: 1000 * prediction_ = duration_ms * weights(1).
C17_PredictionScaling ==
    (op \in {"result", "deduceResult"} /\ lr_ran) =>
        1000 * prediction_ = dur * w1

C19_RegressionInBounds ==
    lr_ran =>
        LET n == Len(history)
        IN  /\ regression_indices(n) \subseteq 0..(n - 1)
            /\ feature_matrix_cols(n) = n
            /\ timestamps_size(n) = n
            /\ measurements_size(n) = n

\* C20: with a threshold of at least the capacity of the history, which
\* SetNbElementForInference accepts, the regression never runs: result()
\* returns gain * input and deduceResult() computes no prediction, however
\* many samples have been inserted.
C20_NeverActivated ==
    (/\ parameters.min_nb_element_for_inference >= Capacity
     /\ op \in {"result", "deduceResult"}) =>
        /\ ~lr_ran
        /\ prediction_ = 0
        /\ op = "result" => ret = parameters.control_gain_ * arg

\* The threshold equals the capacity, the history is full and has evicted a
\* sample, and both calls have been made on it.
C20_Witness ==
    /\ parameters.min_nb_element_for_inference = Capacity
    /\ profile.lr_nbminelementforinference = Capacity
    /\ op = "deduceResult"
    /\ Len(history) = Capacity
    /\ inserted > Capacity
    /\ parameters.control_signal_ # 0

====
